---- MODULE Spec2Model ----
(***************************************************************************)
(* Model of golix/cipher.py: the first-/third-person identities of the     *)
(* Golix protocol, ciphersuite 0 (placeholder) and ciphersuite 1 (RSA /    *)
(* X25519 / AES-CTR / HMAC), and the protocol operations built on them.    *)
(*                                                                         *)
(* Byte strings are modelled by structured values:                         *)
(*   - a container is [body, signature]; its address is the digest of the  *)
(*     body, modelled collision-free as [hashed |-> TRUE, of |-> body];    *)
(*   - an RSA key pair is an integer id, private or public;                *)
(*   - PSS, OAEP, HMAC and HKDF are modelled as ideal primitives: a        *)
(*     signature / tag names the key and the data it was computed over,    *)
(*     an OAEP ciphertext names the key it is encrypted to;                *)
(*   - X25519 is modelled by Diffie-Hellman in a small prime group;        *)
(*   - AES-CTR is the XOR of the data with a keystream.                    *)
(***************************************************************************)
EXTENDS Integers, Sequences, FiniteSets, TLC

VARIABLES ids, wire, heap, last, used

vars == <<ids, wire, heap, last, used>>

(***************************************************************************)
(* Bounds of the model.                                                    *)
(***************************************************************************)
\* Number of unpacked container objects the callers keep alive.
MaxHeap == 2
\* The longest plaintext handed to the symmetric primitives on their own.
MaxLen == 2

(***************************************************************************)
(* Program constants.                                                      *)
(***************************************************************************)
DEFAULT_ADDRESSER == 1

\* A modelled byte has two bits.
Byte == 0 .. 3

(***************************************************************************)
(* Values.                                                                 *)
(***************************************************************************)
Guid(algo, address) == [algo |-> algo, address |-> address]
NoGuid == Guid(0, <<>>)

Key(id, private) == [id |-> id, private |-> private]
NoShared == [master |-> -1, salt |-> <<>>]

\* utils.Secret; seed -1 stands for None, is_secret FALSE for an object that is
\* no Secret at all.
Secret(cipher, key, seed) ==
    [is_secret |-> TRUE, cipher |-> cipher, key |-> key, seed |-> seed]
NotASecret == [is_secret |-> FALSE, cipher |-> -1, key |-> 3, seed |-> 1]
NoSecret == [is_secret |-> FALSE, cipher |-> -1, key |-> -1, seed |-> -1]

\* The bytes of an inner asymmetric record.  parse[k] is what the k-th
\* parser of the cascade (1 handshake, 2 ack, 3 nak) does with these bytes.
Inner(parse, author, target, secret, status) ==
    [parse |-> parse, author |-> author, target |-> target,
     secret |-> secret, status |-> status]
NoInner == Inner(<<"none", "none", "none">>, NoGuid, NoGuid, NoSecret, -1)

Asym(to, body) == [to |-> to, body |-> body]
NoAsym == Asym(-1, NoInner)

Body(kind, who, target, ct, asym, dyn, hist, cipher, algo) ==
    [kind |-> kind, who |-> who, target |-> target, ct |-> ct, asym |-> asym,
     dyn |-> dyn, hist |-> hist, cipher |-> cipher, algo |-> algo]
NoBody == Body("none", NoGuid, NoGuid, <<>>, NoAsym, NoGuid, <<>>, -1, 0)

\* Data handed to a signature or MAC primitive: a digest of a packed body
\* (hashed) or the bytes of the body themselves.
Data(hashed, of) == [hashed |-> hashed, of |-> of]
NoData == Data(FALSE, NoBody)

Sig(scheme, signer, key, data) ==
    [scheme |-> scheme, signer |-> signer, key |-> key, data |-> data]
NoSig == Sig("none", -1, NoShared, NoData)

Container(body, signature) == [body |-> body, signature |-> signature]
NoContainer == Container(NoBody, NoSig)

\* utils.AsymHandshake / AsymAck / AsymNak
Rec(kind, author, target, secret, status) ==
    [kind |-> kind, author |-> author, target |-> target,
     secret |-> secret, status |-> status]
NoRec == Rec("none", NoGuid, NoGuid, NoSecret, -1)

ParseKinds == <<"handshake", "ack", "nak">>

(***************************************************************************)
(* Helpers standing in for the arithmetic of the primitives.               *)
(***************************************************************************)
RECURSIVE XorInt(_, _)
XorInt(a, b) ==
    IF a = 0 /\ b = 0 THEN 0
    ELSE (((a % 2) + (b % 2)) % 2) + 2 * XorInt(a \div 2, b \div 2)

Min(a, b) == IF a <= b THEN a ELSE b
Max(a, b) == IF a >= b THEN a ELSE b

\* The step prim is among the steps a call went through.
Has(log, prim) == \E i \in 1 .. Len(log) : log[i] = prim

\* bytes([a ^ b for a, b in zip(x, y)])
XorBytes(x, y) == [i \in 1 .. Min(Len(x), Len(y)) |-> XorInt(x[i], y[i])]

RECURSIVE PowMod(_, _, _)
PowMod(b, e, m) == IF e = 0 THEN 1 % m ELSE (b * PowMod(b, e - 1, m)) % m

\* donna25519: the public key of a private scalar, and the exchange, in the
\* multiplicative group modulo 23 with generator 5.
ExchangePublic(priv) == PowMod(5, priv, 23)
DoExchange(priv, pub) == PowMod(pub, priv, 23)

\* AES in counter mode: byte i of the data is XORed with byte i of the
\* keystream that the key and the initial counter value determine.
Keystream(key, ctr_start, i) == ((key * 3) + ctr_start + i) % 4
CtrXor(key, ctr_start, data) ==
    [i \in 1 .. Len(data) |-> XorInt(data[i], Keystream(key, ctr_start, i))]

(***************************************************************************)
(* Placeholders of ciphersuite 0 (the _dummy_ values of utils).            *)
(***************************************************************************)
DummyPubkey == Key(0, FALSE)
DummySignature == Sig("dummy_signature", 0, NoShared, NoData)
DummyMac == Sig("dummy_mac", 0, NoShared, NoData)
\* _dummy_asym is no packed record: none of the three parsers accepts it.
DummyInner ==
    Inner(<<"ParseError", "ParseError", "ParseError">>, NoGuid, NoGuid, NoSecret, 0)
DummyAsym == Asym(0, DummyInner)
PlaceholderShared == [master |-> 0, salt |-> <<>>]
PlaceholderEncrypted == <<3, 3, 3>>
PlaceholderDecrypted == <<0, 0, 0>>

(***************************************************************************)
(* Addresses.                                                              *)
(***************************************************************************)
\* The address of a packed container: the digest of its body.
Address(body) == Data(TRUE, body)
ContainerGuid(body) == [algo |-> body.algo, address |-> Address(body)]

\* _dispatch_address
DispatchAddress(address_algo) ==
    IF address_algo = 0 THEN DEFAULT_ADDRESSER ELSE address_algo

\* The address of a GIDC, a digest of the packed public keys, as two bytes.
GidcAddress(keys) == <<keys.signature.id % 4, keys.exchange.id % 4>>

(***************************************************************************)
(* Identities.                                                             *)
(***************************************************************************)
IdNames == {"A", "B", "Z"}
CipherOf(n) == IF n = "Z" THEN 0 ELSE 1

\* _generate_keys: the key material drawn for each identity.
GenerateKeys(n) ==
    IF CipherOf(n) = 0
    THEN [signature |-> DummyPubkey, encryption |-> DummyPubkey,
          exchange |-> DummyPubkey]
    ELSE IF n = "A"
    THEN [signature |-> Key(1, TRUE), encryption |-> Key(2, TRUE),
          exchange |-> Key(3, TRUE)]
    ELSE [signature |-> Key(6, TRUE), encryption |-> Key(7, TRUE),
          exchange |-> Key(5, TRUE)]

\* _ThirdPersonBase.from_keys
FromKeys(cipher, keys, address_algo) ==
    [cls |-> cipher,
     author_guid |-> Guid(address_algo, GidcAddress(keys)),
     signature_key |-> keys.signature,
     encryption_key |-> keys.encryption,
     exchange_key |-> keys.exchange]

\* _generate_third_person
GenerateThirdPerson(cipher, keys, address_algo) ==
    IF cipher = 0
    THEN FromKeys(0, [signature |-> DummyPubkey, encryption |-> DummyPubkey,
                      exchange |-> DummyPubkey], address_algo)
    ELSE FromKeys(1, [signature |-> Key(keys.signature.id, FALSE),
                      encryption |-> Key(keys.encryption.id, FALSE),
                      exchange |-> Key(ExchangePublic(keys.exchange.id), FALSE)],
                  address_algo)

\* _FirstPersonBase.__init__ with neither keys nor author_guid given.
NewFirstPerson(n) ==
    LET cipher == CipherOf(n)
        algo == DispatchAddress(0)
        keys == GenerateKeys(n)
        third == GenerateThirdPerson(cipher, keys, algo)
    IN [cipher |-> cipher,
        address_algo |-> algo,
        author_guid |-> third.author_guid,
        signature_key |-> keys.signature,
        encryption_key |-> keys.encryption,
        exchange_key |-> keys.exchange,
        third_party |-> third]

\* A first-person identity that was never built, and the _third_party
\* attribute that was never set.
NoThird ==
    [cls |-> -1, author_guid |-> NoGuid, signature_key |-> Key(-1, FALSE),
     encryption_key |-> Key(-1, FALSE), exchange_key |-> Key(-1, FALSE)]
NoIdentity ==
    [cipher |-> -1, address_algo |-> 0, author_guid |-> NoGuid,
     signature_key |-> Key(-1, FALSE), encryption_key |-> Key(-1, FALSE),
     exchange_key |-> Key(-1, FALSE), third_party |-> NoThird]

\* A key bundle handed to a constructor: a dict holding the roles in roles.
Roles == {"signature", "encryption", "exchange"}
Bundle(roles, keys) == [roles |-> roles, keys |-> keys]

\* The outcome of a constructor: what it raised, the identity built, and
\* whether _generate_keys ran.
Built(result, first, third, generated) ==
    [result |-> result, first |-> first, third |-> third,
     generated |-> generated]

\* _IdentityBase.__init__: keys['signature'], keys['encryption'],
\* keys['exchange'] inside try / except (KeyError, TypeError).
IdentityBaseInit(bundle) ==
    IF Roles \subseteq bundle.roles THEN "" ELSE "RuntimeError"

\* _ThirdPersonBase.from_keys on any bundle: _pack_keys sits inside the try,
\* the GIDC(...) construction that subscripts packed_keys does not; the
\* _pack_keys of suite 0 returns the bundle untouched.
FromKeysAnyBundle(cipher, bundle, address_algo) ==
    IF cipher = 1 /\ ~(Roles \subseteq bundle.roles)
    THEN Built("RuntimeError", NoIdentity, NoThird, FALSE)
    ELSE IF ~(Roles \subseteq bundle.roles)
    THEN Built("KeyError", NoIdentity, NoThird, FALSE)
    ELSE IF IdentityBaseInit(bundle) # ""
    THEN Built(IdentityBaseInit(bundle), NoIdentity, NoThird, FALSE)
    ELSE Built("ok", NoIdentity, FromKeys(cipher, bundle.keys, address_algo), FALSE)

\* _FirstPersonBase.__init__(keys, author_guid) of the class of n
FirstPersonInit(n, has_keys, bundle, has_guid, author_guid) ==
    IF has_keys /\ has_guid
    THEN IF IdentityBaseInit(bundle) # ""
         THEN Built(IdentityBaseInit(bundle), NoIdentity, NoThird, FALSE)
         ELSE Built("ok",
                    [cipher |-> CipherOf(n),
                     address_algo |-> DispatchAddress(0),
                     author_guid |-> author_guid,
                     signature_key |-> bundle.keys.signature,
                     encryption_key |-> bundle.keys.encryption,
                     exchange_key |-> bundle.keys.exchange,
                     third_party |-> NoThird],
                    NoThird, FALSE)
    ELSE IF has_keys \/ has_guid
    THEN Built("TypeError", NoIdentity, NoThird, FALSE)
    ELSE Built("ok", NewFirstPerson(n), NoThird, TRUE)

\* _typecheck_thirdparty: isinstance(obj, cls._3PID)
TypecheckThirdparty(self, obj) == obj.cls = self.cipher

\* _typecheck_secret
TypecheckSecret(self, secret) ==
    IF ~secret.is_secret THEN FALSE
    ELSE IF secret.cipher # self.cipher THEN FALSE
    ELSE TRUE

(***************************************************************************)
(* Primitives of the ciphersuites.  A primitive that can raise returns     *)
(* [err, val]; err = "" means it returned val.                             *)
(***************************************************************************)
Ret(err, val) == [err |-> err, val |-> val]

\* _FrozenSHA512(data): only a digest-sized value can be frozen.
FrozenSHA512(data) == IF data.hashed THEN "" ELSE "ValueError"

\* _sign
Sign(self, data) ==
    IF self.cipher = 0 THEN Ret("", DummySignature)
    ELSE IF FrozenSHA512(data) # "" THEN Ret(FrozenSHA512(data), NoSig)
    ELSE Ret("", Sig("pss", self.signature_key.id, NoShared, data))

\* _verify checking the signature in suite 0 as well
VerifyNullChecks(self, public, signature, data) ==
    IF FrozenSHA512(data) # "" THEN FrozenSHA512(data)
    ELSE IF /\ signature.scheme = "pss"
            /\ signature.signer = public.signature_key.id
            /\ signature.data = data
         THEN ""
         ELSE "SecurityError"

\* _verify looking at the signer only, not at what was signed
VerifySignerOnly(self, public, signature, data) ==
    IF self.cipher = 0 THEN ""
    ELSE IF FrozenSHA512(data) # "" THEN FrozenSHA512(data)
    ELSE IF signature.scheme = "pss" /\ signature.signer = public.signature_key.id
         THEN ""
         ELSE "SecurityError"

\* _verify, after its _typecheck_thirdparty: "" when it returns True.
Verify(self, public, signature, data) ==
    IF self.cipher = 0 THEN ""
    ELSE IF FrozenSHA512(data) # "" THEN FrozenSHA512(data)
    ELSE IF /\ signature.scheme = "pss"
            /\ signature.signer = public.signature_key.id
            /\ signature.data = data
         THEN ""
         ELSE "SecurityError"

\* _verify as a whole: _typecheck_thirdparty, then the check.
VerifyCall(self, public, signature, data) ==
    IF ~TypecheckThirdparty(self, public) THEN "TypeError"
    ELSE Verify(self, public, signature, data)

\* _encrypt_asym, after its _typecheck_thirdparty
EncryptAsym(self, public, data) ==
    IF self.cipher = 0 THEN DummyAsym
    ELSE Asym(public.encryption_key.id, data)

\* _decrypt_asym
DecryptAsym(self, payload) ==
    IF self.cipher = 0 THEN Ret("", DummyInner)
    ELSE IF payload.to = self.encryption_key.id THEN Ret("", payload.body)
    ELSE Ret("ValueError", NoInner)

\* new_secret: 32 random key bytes and 16 random nonce bytes in suite 1 (here
\* the draw is handed in), bytes(32) and no seed in suite 0.
NewSecret(cipher, key, nonce) ==
    IF cipher = 0 THEN Secret(0, 0, -1) ELSE Secret(1, key, nonce)

\* _encrypt (symmetric)
Encrypt(cipher, secret, data) ==
    IF cipher = 0 THEN Ret("", PlaceholderEncrypted)
    ELSE IF ~secret.is_secret THEN Ret("AttributeError", <<>>)
    ELSE IF secret.seed = -1 THEN Ret("TypeError", <<>>)
    ELSE Ret("", CtrXor(secret.key, secret.seed, data))

\* _decrypt starting its counter one past the nonce
DecryptOffByOne(cipher, secret, data) ==
    IF cipher = 0 THEN Ret("", PlaceholderDecrypted)
    ELSE IF ~secret.is_secret THEN Ret("AttributeError", <<>>)
    ELSE IF secret.seed = -1 THEN Ret("TypeError", <<>>)
    ELSE Ret("", CtrXor(secret.key, secret.seed + 1, data))

\* _decrypt (symmetric)
Decrypt(cipher, secret, data) ==
    IF cipher = 0 THEN Ret("", PlaceholderDecrypted)
    ELSE IF ~secret.is_secret THEN Ret("AttributeError", <<>>)
    ELSE IF secret.seed = -1 THEN Ret("TypeError", <<>>)
    ELSE Ret("", CtrXor(secret.key, secret.seed, data))

\* _derive_shared salting with the own address only
DeriveSharedOwnSalt(self, partner) ==
    IF self.cipher = 0 THEN PlaceholderShared
    ELSE LET ecdh == DoExchange(self.exchange_key.id, partner.exchange_key.id)
             my_hash == self.author_guid.address
         IN [master |-> ecdh, salt |-> my_hash]

\* _derive_shared salting with the partner's address only
DeriveSharedTheirSalt(self, partner) ==
    IF self.cipher = 0 THEN PlaceholderShared
    ELSE LET ecdh == DoExchange(self.exchange_key.id, partner.exchange_key.id)
             their_hash == partner.author_guid.address
         IN [master |-> ecdh, salt |-> their_hash]

\* _derive_shared
DeriveShared(self, partner) ==
    IF self.cipher = 0 THEN PlaceholderShared
    ELSE LET ecdh == DoExchange(self.exchange_key.id, partner.exchange_key.id)
             my_hash == self.author_guid.address
             their_hash == partner.author_guid.address
             salt == XorBytes(my_hash, their_hash)
         IN [master |-> ecdh, salt |-> salt]

\* _mac
Mac(cipher, key, data) ==
    IF cipher = 0 THEN DummyMac ELSE Sig("hmac", -1, key, data)

\* _verify_mac comparing the key only, not the data
VerifyMacKeyOnly(cipher, key, mac, data) ==
    IF cipher = 0 THEN ""
    ELSE IF mac.scheme = "hmac" /\ mac.signer = -1 /\ mac.key = key THEN ""
    ELSE "SecurityError"

\* _verify_mac: "" when it returns True.
VerifyMac(cipher, key, mac, data) ==
    IF cipher = 0 THEN ""
    ELSE IF mac = Sig("hmac", -1, key, data) THEN ""
    ELSE "SecurityError"

(***************************************************************************)
(* Inner records of an asymmetric request and their parsers (_getlow).     *)
(***************************************************************************)
\* GARQHandshake / GARQAck / GARQNak (...).pack()
PackInner(kind, author, target, secret, status) ==
    Inner([k \in 1 .. 3 |-> IF ParseKinds[k] = kind THEN "ok" ELSE "ParseError"],
          author, target, secret, status)

\* GARQHandshake.unpack / GARQAck.unpack / GARQNak.unpack on the plaintext,
\* and the Asym* record built from the fields.
TryParse(k, plaintext) ==
    IF plaintext.parse[k] = "ok"
    THEN Ret("", Rec(ParseKinds[k], plaintext.author, plaintext.target,
                     IF k = 1 THEN plaintext.secret ELSE NoSecret,
                     IF k = 1 THEN -1 ELSE plaintext.status))
    ELSE Ret(plaintext.parse[k], NoRec)

(***************************************************************************)
(* Protocol operations of _FirstPersonBase.  Each returns the outcome of   *)
(* one call: its result ("ok" or the exception raised), the steps it took  *)
(* in order, the data it handed to sign / verify / mac / verify_mac (if it *)
(* got that far), and what it returned.                                    *)
(***************************************************************************)
Res(result, log, data, packed, rec, pt, author) ==
    [result |-> result, log |-> log, data |-> data, packed |-> packed,
     rec |-> rec, pt |-> pt, author |-> author]

Fail(result, log, data) == Res(result, log, data, NoContainer, NoRec, <<>>, NoGuid)

\* Signing the packed bytes of the body instead of its address
SignAndAttachRaw(self, body, log) ==
    LET data == Data(FALSE, body)
        signature == Sign(self, data)
        log2 == log \o <<"pack", "sign">>
    IN IF signature.err # "" THEN Fail(signature.err, log2, data)
       ELSE Res("ok", log2 \o <<"attach">>, data,
                Container(body, signature.val), NoRec, <<>>, NoGuid)

\* pack, sign the address, attach the signature: the tail shared by
\* make_object, make_bind_static, make_bind_dynamic and make_debind.
SignAndAttach(self, body, log) ==
    LET data == Address(body)
        signature == Sign(self, data)
        log2 == log \o <<"pack", "sign">>
    IN IF signature.err # "" THEN Fail(signature.err, log2, data)
       ELSE Res("ok", log2 \o <<"attach">>, data,
                Container(body, signature.val), NoRec, <<>>, NoGuid)

\* make_object encrypting before it checks the secret
MakeObjectLateCheck(self, secret, plaintext) ==
    LET payload == Encrypt(self.cipher, secret, plaintext)
        log == <<"encrypt", "typecheck_secret">>
    IN IF payload.err # "" THEN Fail(payload.err, <<"encrypt">>, NoData)
       ELSE IF ~TypecheckSecret(self, secret) THEN Fail("TypeError", log, NoData)
       ELSE SignAndAttach(self,
                Body("GEOC", self.author_guid, NoGuid, payload.val, NoAsym,
                     NoGuid, <<>>, self.cipher, self.address_algo),
                log)

\* make_object
MakeObject(self, secret, plaintext) ==
    IF ~TypecheckSecret(self, secret)
    THEN Fail("TypeError", <<"typecheck_secret">>, NoData)
    ELSE LET payload == Encrypt(self.cipher, secret, plaintext)
             log == <<"typecheck_secret", "encrypt">>
         IN IF payload.err # "" THEN Fail(payload.err, log, NoData)
            ELSE SignAndAttach(self,
                     Body("GEOC", self.author_guid, NoGuid, payload.val, NoAsym,
                          NoGuid, <<>>, self.cipher, self.address_algo),
                     log)

\* make_bind_static
MakeBindStatic(self, guid) ==
    SignAndAttach(self,
        Body("GOBS", self.author_guid, guid, <<>>, NoAsym, NoGuid, <<>>,
             self.cipher, self.address_algo),
        <<>>)

\* make_bind_dynamic
MakeBindDynamic(self, guid, address, history) ==
    SignAndAttach(self,
        Body("GOBD", self.author_guid, guid, <<>>, NoAsym, address, history,
             self.cipher, self.address_algo),
        <<>>)

\* make_debind
MakeDebind(self, guid) ==
    SignAndAttach(self,
        Body("GDXX", self.author_guid, guid, <<>>, NoAsym, NoGuid, <<>>,
             self.cipher, self.address_algo),
        <<>>)

\* _make_asym authenticating the GARQ with the sender's signature key
MakeAsymSigned(self, recipient, plaintext, log) ==
    LET payload == EncryptAsym(self, recipient, plaintext)
        body == Body("GARQ", recipient.author_guid, NoGuid, <<>>, payload,
                     NoGuid, <<>>, self.cipher, self.address_algo)
        data == Address(body)
    IN Res("ok",
           log \o <<"encrypt_asym", "pack", "sign", "attach">>,
           data, Container(body, Sign(self, data).val), NoRec, <<>>, NoGuid)

\* _make_asym
MakeAsym(self, recipient, plaintext, log) ==
    LET payload == EncryptAsym(self, recipient, plaintext)
        body == Body("GARQ", recipient.author_guid, NoGuid, <<>>, payload,
                     NoGuid, <<>>, self.cipher, self.address_algo)
        key == DeriveShared(self, recipient)
        data == Address(body)
        mac == Mac(self.cipher, key, data)
    IN Res("ok",
           log \o <<"encrypt_asym", "pack", "derive_shared", "mac", "attach">>,
           data, Container(body, mac), NoRec, <<>>, NoGuid)

\* make_request / make_ack / make_nak, by the kind of the inner record
MakeInner(self, kind, target, secret, status, recipient) ==
    IF ~TypecheckThirdparty(self, recipient)
    THEN Fail("TypeError", <<"typecheck_thirdparty">>, NoData)
    ELSE MakeAsym(self, recipient,
                  PackInner(kind, self.author_guid, target, secret, status),
                  <<"typecheck_thirdparty", "pack_inner">>)

MakeRequest(self, secret, target, recipient) ==
    MakeInner(self, "handshake", target, secret, -1, recipient)

MakeAck(self, target, recipient, status) ==
    MakeInner(self, "ack", target, NoSecret, status, recipient)

MakeNak(self, target, recipient, status) ==
    MakeInner(self, "nak", target, NoSecret, status, recipient)

\* An unpacked container object held by a caller: a GARQ or a GEOC, with the
\* _plaintext attribute unpack_request sets on a GARQ.  returned counts the
\* receive_request calls that returned the plaintext of this object.
Obj(cls, packed, has_plaintext, plaintext) ==
    [cls |-> cls, body |-> packed.body, signature |-> packed.signature,
     has_plaintext |-> has_plaintext, plaintext |-> plaintext, returned |-> 0]

\* del request._plaintext, once receive_request has verified the MAC
ConsumeKeep(request) ==
    [request EXCEPT !.returned = Min(@ + 1, 2)]

\* receive_request dropping the payload of the request along with its
\* plaintext
ConsumeWhole(request) ==
    [request EXCEPT !.has_plaintext = FALSE, !.plaintext = NoRec,
                    !.body = NoBody, !.returned = Min(@ + 1, 2)]

Consume(request) ==
    [request EXCEPT !.has_plaintext = FALSE, !.plaintext = NoRec,
                    !.returned = Min(@ + 1, 2)]

\* The cascade trying ack before handshake
CascadeAckFirst(plaintext, log) ==
    LET h == TryParse(1, plaintext)
        a == TryParse(2, plaintext)
        n == TryParse(3, plaintext)
        loga == log \o <<"parse_ack">>
        logh == loga \o <<"parse_handshake">>
        logn == logh \o <<"parse_nak">>
    IN IF a.err = ""
       THEN Res("ok", loga, NoData, NoContainer, a.val, <<>>, a.val.author)
       ELSE IF a.err # "ParseError" THEN Fail(a.err, loga, NoData)
       ELSE IF h.err = ""
       THEN Res("ok", logh, NoData, NoContainer, h.val, <<>>, h.val.author)
       ELSE IF h.err # "ParseError" THEN Fail(h.err, logh, NoData)
       ELSE IF n.err = ""
       THEN Res("ok", logn, NoData, NoContainer, n.val, <<>>, n.val.author)
       ELSE IF n.err # "ParseError" THEN Fail(n.err, logn, NoData)
       ELSE Fail("SecurityError", logn, NoData)

\* The cascade with a bare except: every error moves on to the next parser
CascadeCatchAll(plaintext, log) ==
    LET h == TryParse(1, plaintext)
        a == TryParse(2, plaintext)
        n == TryParse(3, plaintext)
        logh == log \o <<"parse_handshake">>
        loga == logh \o <<"parse_ack">>
        logn == loga \o <<"parse_nak">>
    IN IF h.err = ""
       THEN Res("ok", logh, NoData, NoContainer, h.val, <<>>, h.val.author)
       ELSE IF a.err = ""
       THEN Res("ok", loga, NoData, NoContainer, a.val, <<>>, a.val.author)
       ELSE IF n.err = ""
       THEN Res("ok", logn, NoData, NoContainer, n.val, <<>>, n.val.author)
       ELSE Fail("SecurityError", logn, NoData)

\* The try / except ParseError cascade of unpack_request.
Cascade(plaintext, log) ==
    LET h == TryParse(1, plaintext)
        a == TryParse(2, plaintext)
        n == TryParse(3, plaintext)
        logh == log \o <<"parse_handshake">>
        loga == logh \o <<"parse_ack">>
        logn == loga \o <<"parse_nak">>
    IN IF h.err = ""
       THEN Res("ok", logh, NoData, NoContainer, h.val, <<>>, h.val.author)
       ELSE IF h.err # "ParseError" THEN Fail(h.err, logh, NoData)
       ELSE IF a.err = ""
       THEN Res("ok", loga, NoData, NoContainer, a.val, <<>>, a.val.author)
       ELSE IF a.err # "ParseError" THEN Fail(a.err, loga, NoData)
       ELSE IF n.err = ""
       THEN Res("ok", logn, NoData, NoContainer, n.val, <<>>, n.val.author)
       ELSE IF n.err # "ParseError" THEN Fail(n.err, logn, NoData)
       ELSE Fail("SecurityError", logn, NoData)

\* unpack_request: res.rec is the plaintext cached on the returned GARQ.
UnpackRequest(self, packed) ==
    IF packed.body.kind # "GARQ"
    THEN Fail("ParseError", <<"unpack_garq">>, NoData)
    ELSE LET plaintext == DecryptAsym(self, packed.body.asym)
             log == <<"unpack_garq", "decrypt_asym">>
         IN IF plaintext.err # "" THEN Fail(plaintext.err, log, NoData)
            ELSE Cascade(plaintext.val, log)

\* receive_request without the call of _verify_mac
ReceiveRequestNoVerify(self, public, request) ==
    IF ~TypecheckThirdparty(self, public)
    THEN Fail("TypeError", <<"typecheck_thirdparty">>, NoData)
    ELSE IF request.cls # "GARQ"
    THEN Fail("TypeError", <<"typecheck_thirdparty", "isinstance">>, NoData)
    ELSE IF ~request.has_plaintext
    THEN Fail("TypeError",
              <<"typecheck_thirdparty", "isinstance", "get_plaintext">>, NoData)
    ELSE Res("ok", <<"typecheck_thirdparty", "isinstance", "get_plaintext",
                     "del_plaintext">>,
             NoData, NoContainer, request.plaintext, <<>>, NoGuid)

\* receive_request deleting the cached plaintext before it verifies the MAC
ReceiveRequestDeleteFirst(self, public, request) ==
    IF ~TypecheckThirdparty(self, public)
    THEN Fail("TypeError", <<"typecheck_thirdparty">>, NoData)
    ELSE IF request.cls # "GARQ"
    THEN Fail("TypeError", <<"typecheck_thirdparty", "isinstance">>, NoData)
    ELSE IF ~request.has_plaintext
    THEN Fail("TypeError",
              <<"typecheck_thirdparty", "isinstance", "get_plaintext">>, NoData)
    ELSE LET key == DeriveShared(self, public)
             data == Address(request.body)
             v == VerifyMac(self.cipher, key, request.signature, data)
             log == <<"typecheck_thirdparty", "isinstance", "get_plaintext",
                      "del_plaintext", "derive_shared", "verify_mac">>
         IN IF v # "" THEN Fail(v, log, data)
            ELSE Res("ok", log, data, NoContainer, request.plaintext, <<>>,
                     NoGuid)

\* receive_request: on "ok" the cached plaintext is returned and deleted.
ReceiveRequest(self, public, request) ==
    IF ~TypecheckThirdparty(self, public)
    THEN Fail("TypeError", <<"typecheck_thirdparty">>, NoData)
    ELSE IF request.cls # "GARQ"
    THEN Fail("TypeError", <<"typecheck_thirdparty", "isinstance">>, NoData)
    ELSE IF ~request.has_plaintext
    THEN Fail("TypeError",
              <<"typecheck_thirdparty", "isinstance", "get_plaintext">>, NoData)
    ELSE LET key == DeriveShared(self, public)
             data == Address(request.body)
             v == VerifyMac(self.cipher, key, request.signature, data)
             log == <<"typecheck_thirdparty", "isinstance", "get_plaintext",
                      "derive_shared", "verify_mac">>
         IN IF v # "" THEN Fail(v, log, data)
            ELSE Res("ok", log \o <<"del_plaintext">>, data,
                     NoContainer, request.plaintext, <<>>, NoGuid)

\* unpack_object refusing a GEOC whose signature is not over its address
UnpackObjectChecked(self, packed) ==
    IF packed.body.kind # "GEOC"
    THEN Fail("ParseError", <<"unpack_geoc">>, NoData)
    ELSE IF self.cipher = 1 /\ packed.signature.data # Address(packed.body)
    THEN Fail("SecurityError", <<"unpack_geoc", "verify">>, NoData)
    ELSE Res("ok", <<"unpack_geoc">>, NoData, NoContainer, NoRec, <<>>,
             packed.body.who)

\* unpack_object
UnpackObject(self, packed) ==
    IF packed.body.kind # "GEOC"
    THEN Fail("ParseError", <<"unpack_geoc">>, NoData)
    ELSE Res("ok", <<"unpack_geoc">>, NoData, NoContainer, NoRec, <<>>,
             packed.body.who)

\* receive_object decrypting before it looks at the outcome of _verify
ReceiveObjectDecryptFirst(self, public, secret, obj) ==
    IF obj.cls # "GEOC"
    THEN Fail("TypeError", <<"isinstance">>, NoData)
    ELSE IF ~TypecheckThirdparty(self, public)
    THEN Fail("TypeError", <<"isinstance", "typecheck_thirdparty">>, NoData)
    ELSE LET data == Address(obj.body)
             v == Verify(self, public, obj.signature, data)
             plaintext == Decrypt(self.cipher, secret, obj.body.ct)
             log == <<"isinstance", "typecheck_thirdparty", "decrypt", "verify">>
         IN IF plaintext.err # "" THEN Fail(plaintext.err, log, data)
            ELSE IF v # "" THEN Fail(v, log, data)
            ELSE Res("ok", log, data, NoContainer, NoRec, plaintext.val, NoGuid)

\* receive_object
ReceiveObject(self, public, secret, obj) ==
    IF obj.cls # "GEOC"
    THEN Fail("TypeError", <<"isinstance">>, NoData)
    ELSE IF ~TypecheckThirdparty(self, public)
    THEN Fail("TypeError", <<"isinstance", "typecheck_thirdparty">>, NoData)
    ELSE LET data == Address(obj.body)
             v == Verify(self, public, obj.signature, data)
             logv == <<"isinstance", "typecheck_thirdparty", "verify">>
             plaintext == Decrypt(self.cipher, secret, obj.body.ct)
             logd == logv \o <<"decrypt">>
         IN IF v # "" THEN Fail(v, logv, data)
            ELSE IF plaintext.err # "" THEN Fail(plaintext.err, logd, data)
            ELSE Res("ok", logd, data, NoContainer, NoRec, plaintext.val, NoGuid)

(***************************************************************************)
(* The state: the identities, the packed container in flight, the unpacked *)
(* objects the callers hold, and the last call with its arguments and      *)
(* outcome; and the secrets spent: which key and nonce encrypted which      *)
(* plaintext.                                                              *)
(***************************************************************************)
\* The arguments of a call.  at is the place in the heap of the object handed
\* to (or returned by) the call, cached whether that object carried a
\* _plaintext when the call began.
NoArgs ==
    [secret |-> NoSecret, target |-> NoGuid, status |-> -1, public |-> NoThird,
     at |-> 0, cached |-> FALSE, pt |-> <<>>]

\* The packed container a call returned is the one in flight after it.
Outcome(res) ==
    [result |-> res.result, log |-> res.log, data |-> res.data, rec |-> res.rec,
     pt |-> res.pt, author |-> res.author]

Call(op, self, args, res) ==
    [op |-> op, self |-> self, args |-> args, res |-> Outcome(res)]

\* Inputs of the calls.
Secrets == {Secret(1, 1, 2), Secret(0, 0, -1), NotASecret}
\* make_request hands its secret to the packer of the inner record untouched;
\* the calls modelled pass it a Secret, of either ciphersuite.
RequestSecrets == {s \in Secrets : s.is_secret}
Targets == {Guid(1, <<0, 1>>), Guid(1, <<2, 3>>)}
Statuses == {0, 1}
Plaintexts == {<<1>>, <<2, 3>>}
Publics == {ids[n].third_party : n \in IdNames}
ParseOutcomes == {"ok", "ParseError", "ValueError"}

\* The sender and the secret handed to receive_object along with obj.  The
\* isinstance test on obj is the first statement of receive_object, so with
\* an obj that is no GEOC one choice of the other two stands for all.
ObjectArgs(obj) ==
    IF obj.cls = "GEOC" THEN Publics \X Secrets
    ELSE {<<ids["A"].third_party, NotASecret>>}

Init ==
    /\ ids = [n \in IdNames |-> NewFirstPerson(n)]
    /\ wire = NoContainer
    /\ heap = <<>>
    /\ last = Call("init", "", NoArgs, Fail("ok", <<>>, NoData))
    /\ used = {}

\* One exchange at a time: a container is made when none is in flight and the
\* callers hold no unpacked object.
Idle == wire = NoContainer /\ heap = <<>>

Emit(res) == wire' = IF res.result = "ok" THEN res.packed ELSE wire

\* What a make_object call handed to _encrypt: the key and nonce of the
\* secret with the plaintext, if the call got as far as encrypting.
Spent(res, self, secret, plaintext) ==
    IF \E i \in 1 .. Len(res.log) : res.log[i] = "encrypt"
    THEN {[cipher |-> self.cipher, key |-> secret.key, seed |-> secret.seed,
           pt |-> plaintext]}
    ELSE {}

make_object(n, secret, plaintext) ==
    LET res == MakeObject(ids[n], secret, plaintext)
    IN /\ Idle
       /\ last' = Call("make_object", n,
                       [NoArgs EXCEPT !.secret = secret, !.pt = plaintext], res)
       /\ Emit(res)
       /\ used' = used \cup Spent(res, ids[n], secret, plaintext)
       /\ UNCHANGED <<ids, heap>>

make_bind_static(n, guid) ==
    LET res == MakeBindStatic(ids[n], guid)
    IN /\ Idle
       /\ last' = Call("make_bind_static", n, [NoArgs EXCEPT !.target = guid], res)
       /\ Emit(res)
       /\ UNCHANGED <<ids, heap, used>>

make_bind_dynamic(n, guid, address) ==
    LET res == MakeBindDynamic(ids[n], guid, address, <<>>)
    IN /\ Idle
       /\ last' = Call("make_bind_dynamic", n, [NoArgs EXCEPT !.target = guid], res)
       /\ Emit(res)
       /\ UNCHANGED <<ids, heap, used>>

make_debind(n, guid) ==
    LET res == MakeDebind(ids[n], guid)
    IN /\ Idle
       /\ last' = Call("make_debind", n, [NoArgs EXCEPT !.target = guid], res)
       /\ Emit(res)
       /\ UNCHANGED <<ids, heap, used>>

make_request(n, secret, target, recipient) ==
    LET res == MakeRequest(ids[n], secret, target, recipient)
    IN /\ Idle
       /\ last' = Call("make_request", n,
                       [NoArgs EXCEPT !.secret = secret, !.target = target,
                                      !.public = recipient], res)
       /\ Emit(res)
       /\ UNCHANGED <<ids, heap, used>>

make_ack(n, target, recipient, status) ==
    LET res == MakeAck(ids[n], target, recipient, status)
    IN /\ Idle
       /\ last' = Call("make_ack", n,
                       [NoArgs EXCEPT !.target = target, !.status = status,
                                      !.public = recipient], res)
       /\ Emit(res)
       /\ UNCHANGED <<ids, heap, used>>

make_nak(n, target, recipient, status) ==
    LET res == MakeNak(ids[n], target, recipient, status)
    IN /\ Idle
       /\ last' = Call("make_nak", n,
                       [NoArgs EXCEPT !.target = target, !.status = status,
                                      !.public = recipient], res)
       /\ Emit(res)
       /\ UNCHANGED <<ids, heap, used>>

\* unpack handing out an object that is held already
NewPlaceFirst(h) == 1

\* GARQ.unpack / GEOC.unpack return a new object each time: it gets the next
\* free place.
NewPlace(h) == Len(h) + 1

Store(h, at, obj) == [i \in 1 .. Max(Len(h), at) |-> IF i = at THEN obj ELSE h[i]]

unpack_request(n) ==
    LET res == UnpackRequest(ids[n], wire)
        at == IF res.result = "ok" THEN NewPlace(heap) ELSE 0
    IN /\ Len(heap) < MaxHeap
       /\ last' = Call("unpack_request", n, [NoArgs EXCEPT !.at = at], res)
       /\ heap' = IF res.result = "ok"
                  THEN Store(heap, at, Obj("GARQ", wire, TRUE, res.rec))
                  ELSE heap
       /\ UNCHANGED <<ids, wire, used>>

receive_request(n, public, at) ==
    LET res == ReceiveRequest(ids[n], public, heap[at])
    IN /\ at \in 1 .. Len(heap)
       /\ last' = Call("receive_request", n,
                       [NoArgs EXCEPT !.public = public, !.at = at,
                                      !.cached = heap[at].has_plaintext], res)
       /\ heap' = IF Has(res.log, "del_plaintext")
                  THEN [heap EXCEPT ![at] = Consume(@)]
                  ELSE heap
       /\ UNCHANGED <<ids, wire, used>>

unpack_object(n) ==
    LET res == UnpackObject(ids[n], wire)
        at == IF res.result = "ok" THEN NewPlace(heap) ELSE 0
    IN /\ Len(heap) < MaxHeap
       /\ last' = Call("unpack_object", n, [NoArgs EXCEPT !.at = at], res)
       /\ heap' = IF res.result = "ok"
                  THEN Store(heap, at, Obj("GEOC", wire, FALSE, NoRec))
                  ELSE heap
       /\ UNCHANGED <<ids, wire, used>>

receive_object(n, public, secret, at) ==
    LET res == ReceiveObject(ids[n], public, secret, heap[at])
    IN /\ at \in 1 .. Len(heap)
       /\ last' = Call("receive_object", n,
                       [NoArgs EXCEPT !.public = public, !.secret = secret,
                                      !.at = at,
                                      !.cached = heap[at].has_plaintext], res)
       /\ UNCHANGED <<ids, wire, heap, used>>

\* A caller unpacks the GARQ in flight itself, without unpack_request.
garq_unpack ==
    /\ Len(heap) < MaxHeap
    /\ wire.body.kind = "GARQ"
    /\ heap' = Append(heap, Obj("GARQ", wire, FALSE, NoRec))
    /\ last' = Call("garq_unpack", "", [NoArgs EXCEPT !.at = Len(heap) + 1],
                    Fail("ok", <<>>, NoData))
    /\ UNCHANGED <<ids, wire, used>>

\* Somebody who holds no private key sends n a GARQ of their own making.
forge(n, parse) ==
    /\ Idle
    /\ wire' = Container(
                 Body("GARQ", ids[n].author_guid, NoGuid, <<>>,
                      Asym(ids[n].third_party.encryption_key.id,
                           Inner(parse, ids["A"].author_guid, Guid(1, <<0, 1>>),
                                 Secret(1, 1, 2), 1)),
                      NoGuid, <<>>, ids[n].cipher, ids[n].address_algo),
                 DummyMac)
    /\ last' = Call("forge", "", NoArgs, Fail("ok", <<>>, NoData))
    /\ UNCHANGED <<ids, heap, used>>

\* What GEOC.unpack makes of a packed GEOC one byte of which was altered in
\* flight: a byte of the payload, of the author, of the signature, or of the
\* framing (which then no longer unpacks).  The address of the unpacked
\* object is the digest of the body as unpacked.
CorruptWhere == {"payload", "author", "signature", "framing"}
Corrupted(packed, where) ==
    IF where = "payload"
    THEN [packed EXCEPT !.body.ct = [@ EXCEPT ![1] = (@ + 1) % 4]]
    ELSE IF where = "author"
    THEN [packed EXCEPT !.body.who.address = [@ EXCEPT ![1] = (@ + 1) % 4]]
    ELSE IF where = "signature"
    THEN [packed EXCEPT !.signature.signer = @ + 1]
    ELSE [packed EXCEPT !.body.kind = "none"]

\* A GEOC just made is altered before anybody unpacks it.
corrupt(where) ==
    /\ last.op = "make_object"
    /\ last.res.result = "ok"
    /\ heap = <<>>
    /\ wire' = Corrupted(wire, where)
    /\ last' = Call("corrupt", "", NoArgs, Fail("ok", <<>>, NoData))
    /\ UNCHANGED <<ids, heap, used>>

\* The exchange ends: the container in flight is dropped, the callers let go
\* of the objects they unpacked, and the record of what was encrypted in it is
\* closed.
release ==
    /\ ~Idle
    /\ wire' = NoContainer
    /\ heap' = <<>>
    /\ last' = Call("release", "", NoArgs, Fail("ok", <<>>, NoData))
    /\ used' = {}
    /\ UNCHANGED ids

Next ==
    \/ \E n \in IdNames, s \in Secrets, p \in Plaintexts : make_object(n, s, p)
    \/ \E n \in IdNames, g \in Targets : make_bind_static(n, g)
    \/ \E n \in IdNames, g \in Targets, a \in {NoGuid, Guid(1, <<0, 1>>)} :
          make_bind_dynamic(n, g, a)
    \/ \E n \in IdNames, g \in Targets : make_debind(n, g)
    \/ \E n \in IdNames, s \in RequestSecrets, g \in Targets, r \in Publics :
          make_request(n, s, g, r)
    \/ \E n \in IdNames, g \in Targets, r \in Publics, st \in Statuses :
          make_ack(n, g, r, st)
    \/ \E n \in IdNames, g \in Targets, r \in Publics, st \in Statuses :
          make_nak(n, g, r, st)
    \/ \E n \in IdNames : unpack_request(n)
    \/ \E n \in IdNames, r \in Publics, at \in 1 .. Len(heap) :
          receive_request(n, r, at)
    \/ \E n \in IdNames : unpack_object(n)
    \/ \E n \in IdNames, at \in 1 .. Len(heap) :
          \E a \in ObjectArgs(heap[at]) : receive_object(n, a[1], a[2], at)
    \/ garq_unpack
    \/ release
    \/ \E parse \in [1 .. 3 -> ParseOutcomes] : forge("B", parse)
    \/ \E where \in CorruptWhere : corrupt(where)

Spec == Init /\ [][Next]_vars

(***************************************************************************)
(* Construction: identities are built, generated or loaded, from whatever  *)
(* the caller hands the constructors.                                      *)
(***************************************************************************)
RoleSets == {Roles, {"signature", "encryption"}, {}}
LoadGuids == {Guid(1, <<0, 1>>), Guid(1, <<2, 3>>)}

\* The public halves of the keys of n, as _generate_third_person takes them.
PublicKeys(n) ==
    LET third == GenerateThirdPerson(CipherOf(n), GenerateKeys(n), DispatchAddress(0))
    IN [signature |-> third.signature_key, encryption |-> third.encryption_key,
        exchange |-> third.exchange_key]

BuildArgs(has_keys, roles, has_guid, guid) ==
    [has_keys |-> has_keys, roles |-> roles, has_guid |-> has_guid, guid |-> guid]

BuildCall(op, n, args, res) == [op |-> op, self |-> n, args |-> args, res |-> res]

BuildInit ==
    /\ ids = [n \in IdNames |-> NoIdentity]
    /\ wire = NoContainer
    /\ heap = <<>>
    /\ last = BuildCall("init", "", BuildArgs(FALSE, {}, FALSE, NoGuid),
                        Built("ok", NoIdentity, NoThird, FALSE))
    /\ used = {}

\* n = FirstPersonIdentityX(keys=..., author_guid=...)
first_person(n, has_keys, roles, owner, has_guid, guid) ==
    LET res == FirstPersonInit(n, has_keys, Bundle(roles, GenerateKeys(owner)),
                               has_guid, guid)
    IN /\ last' = BuildCall("first_person", n,
                            BuildArgs(has_keys, roles, has_guid, guid), res)
       /\ ids' = IF res.result = "ok" THEN [ids EXCEPT ![n] = res.first] ELSE ids
       /\ UNCHANGED <<wire, heap, used>>

\* ThirdPersonIdentityX.from_keys(keys, address_algo)
from_keys(n, roles) ==
    LET res == FromKeysAnyBundle(CipherOf(n), Bundle(roles, PublicKeys(n)),
                                 DispatchAddress(0))
    IN /\ last' = BuildCall("from_keys", n,
                            BuildArgs(TRUE, roles, FALSE, NoGuid), res)
       /\ UNCHANGED <<ids, wire, heap, used>>

BuildNext ==
    \/ \E n \in IdNames, o \in IdNames, hk \in BOOLEAN, r \in RoleSets,
          hg \in BOOLEAN, g \in LoadGuids :
          /\ CipherOf(o) = CipherOf(n)
          /\ (~hk => r = Roles /\ o = n)
          /\ (~hg => g = Guid(1, <<0, 1>>))
          /\ first_person(n, hk, r, o, hg, g)
    \/ \E n \in IdNames, r \in RoleSets : from_keys(n, r)

BuildSpec == BuildInit /\ [][BuildNext]_vars

(***************************************************************************)
(* Secrets: an identity hands out secrets and makes one object after       *)
(* another; what was encrypted under which key and nonce is remembered.    *)
(***************************************************************************)
\* secret = n.new_secret(); the Secret returned is carried in rec.secret.
new_secret(n, key, nonce) ==
    /\ Idle
    /\ last' = Call("new_secret", n, NoArgs,
                    Res("ok", <<>>, NoData, NoContainer,
                        [NoRec EXCEPT !.secret = NewSecret(ids[n].cipher, key, nonce)],
                        <<>>, NoGuid))
    /\ UNCHANGED <<ids, wire, heap, used>>

\* The caller has stored or sent the object it made.
sent ==
    /\ wire # NoContainer
    /\ wire' = NoContainer
    /\ last' = Call("sent", "", NoArgs, Fail("ok", <<>>, NoData))
    /\ UNCHANGED <<ids, heap, used>>

SecretNext ==
    \/ \E n \in IdNames, key \in Byte, nonce \in Byte : new_secret(n, key, nonce)
    \/ \E n \in IdNames, s \in Secrets, p \in Plaintexts : make_object(n, s, p)
    \/ sent

SecretSpec == Init /\ [][SecretNext]_vars

(***************************************************************************)
(* Primitives: the symmetric cipher, the signature and the MAC of an       *)
(* identity applied on their own, the second of each pair to what the      *)
(* first returned, as it is or altered on the way.                         *)
(***************************************************************************)
PrimSecrets == {Secret(1, k, n) : k \in Byte, n \in Byte} \cup {Secret(0, 0, -1)}
PrimPlaintexts == UNION {[1 .. l -> Byte] : l \in 0 .. MaxLen}
PrimData == {Data(TRUE, [NoBody EXCEPT !.kind = k]) : k \in {"GEOC", "GOBS", "GARQ"}}
PrimKeys ==
    {DeriveShared(ids[a], ids[b].third_party) : a \in IdNames, b \in IdNames}
Tampers == {"none", "data", "size", "tag", "key"}

\* The arguments and the outcome of a primitive call.
PrimIn(secret, pt, public, data, key, tamper, signer) ==
    [secret |-> secret, pt |-> pt, public |-> public, data |-> data,
     key |-> key, tamper |-> tamper, signer |-> signer]
NoPrimIn == PrimIn(NoSecret, <<>>, NoThird, NoData, NoShared, "none", "")
PrimOut(err, pt, sig) == [err |-> err, pt |-> pt, sig |-> sig]
PrimCall(op, n, in, out) == [op |-> op, self |-> n, args |-> in, res |-> out]

\* What arrives when data or a signature / tag is altered on the way: another
\* digest, a value that is not digest-sized, a tag with a bit flipped.
OtherData(data) ==
    IF data = Data(TRUE, [NoBody EXCEPT !.kind = "GEOC"])
    THEN Data(TRUE, [NoBody EXCEPT !.kind = "GOBS"])
    ELSE Data(TRUE, [NoBody EXCEPT !.kind = "GEOC"])
AlteredData(data, tamper) ==
    IF tamper = "data" THEN OtherData(data)
    ELSE IF tamper = "size" THEN [data EXCEPT !.hashed = FALSE]
    ELSE data
AlteredTag(sig, tamper) ==
    IF tamper = "tag" THEN [sig EXCEPT !.signer = @ - 7] ELSE sig
AlteredKey(key, tamper) ==
    IF tamper = "key" THEN [key EXCEPT !.master = (@ + 1) % 23] ELSE key

PrimInit ==
    /\ ids = [n \in IdNames |-> NewFirstPerson(n)]
    /\ wire = NoContainer
    /\ heap = <<>>
    /\ used = {}
    /\ last = PrimCall("init", "", NoPrimIn, PrimOut("", <<>>, NoSig))

\* One pair of calls at a time.
Fresh == last.op = "init"

\* The caller is done with the pair of calls.
forget ==
    /\ last.op \in {"decrypt", "verify", "verify_mac"}
    /\ last' = PrimCall("init", "", NoPrimIn, PrimOut("", <<>>, NoSig))
    /\ UNCHANGED <<ids, wire, heap, used>>

\* n._encrypt(secret, plaintext)
encrypt_sym(n, secret, plaintext) ==
    LET r == Encrypt(ids[n].cipher, secret, plaintext)
    IN /\ Fresh
       /\ last' = PrimCall("encrypt", n,
                           [NoPrimIn EXCEPT !.secret = secret, !.pt = plaintext],
                           PrimOut(r.err, r.val, NoSig))
       /\ UNCHANGED <<ids, wire, heap, used>>

\* n._decrypt(secret, ciphertext) on what _encrypt just returned
decrypt_sym ==
    /\ last.op = "encrypt"
    /\ last.res.err = ""
    /\ LET r == Decrypt(ids[last.self].cipher, last.args.secret, last.res.pt)
       IN last' = PrimCall("decrypt", last.self, last.args,
                           PrimOut(r.err, r.val, NoSig))
    /\ UNCHANGED <<ids, wire, heap, used>>

\* n._sign(data)
sign(n, data) ==
    LET r == Sign(ids[n], data)
    IN /\ Fresh
       /\ last' = PrimCall("sign", n,
                           [NoPrimIn EXCEPT !.data = data, !.signer = n],
                           PrimOut(r.err, <<>>, r.val))
       /\ UNCHANGED <<ids, wire, heap, used>>

\* m._verify(public, signature, data) on what _sign just returned
verify(m, public, tamper) ==
    /\ last.op = "sign"
    /\ last.res.err = ""
    /\ last' = PrimCall("verify", m,
                        [last.args EXCEPT !.public = public, !.tamper = tamper],
                        PrimOut(VerifyCall(ids[m], public,
                                           AlteredTag(last.res.sig, tamper),
                                           AlteredData(last.args.data, tamper)),
                                <<>>, last.res.sig))
    /\ UNCHANGED <<ids, wire, heap, used>>

\* n._mac(key, data)
mac(n, key, data) ==
    /\ Fresh
    /\ last' = PrimCall("mac", n,
                        [NoPrimIn EXCEPT !.data = data, !.key = key, !.signer = n],
                        PrimOut("", <<>>, Mac(ids[n].cipher, key, data)))
    /\ UNCHANGED <<ids, wire, heap, used>>

\* m._verify_mac(key, mac, data) on what _mac just returned
verify_mac(m, tamper) ==
    /\ last.op = "mac"
    /\ last' = PrimCall("verify_mac", m, [last.args EXCEPT !.tamper = tamper],
                        PrimOut(VerifyMac(ids[m].cipher,
                                          AlteredKey(last.args.key, tamper),
                                          AlteredTag(last.res.sig, tamper),
                                          AlteredData(last.args.data, tamper)),
                                <<>>, last.res.sig))
    /\ UNCHANGED <<ids, wire, heap, used>>

PrimNext ==
    \/ \E n \in IdNames, s \in PrimSecrets, p \in PrimPlaintexts :
          /\ s.cipher = ids[n].cipher
          /\ encrypt_sym(n, s, p)
    \/ decrypt_sym
    \/ \E n \in IdNames, d \in PrimData : sign(n, d)
    \/ \E m \in IdNames, pub \in Publics, t \in Tampers \ {"key"} :
          verify(m, pub, t)
    \/ \E n \in IdNames, k \in PrimKeys, d \in PrimData : mac(n, k, d)
    \/ \E m \in IdNames, t \in Tampers : verify_mac(m, t)
    \/ forget

PrimSpec == PrimInit /\ [][PrimNext]_vars

(***************************************************************************)
(* Concurrency: several threads call receive_request on the same unpacked  *)
(* GARQ with the same identity and the same sender.  The calls share the   *)
(* request object only; a thread can be preempted between any two of the   *)
(* statements that touch it: the read of request._plaintext and its del.   *)
(***************************************************************************)
MaxThreads == 3
Threads == 1 .. MaxThreads

\* Where each call stands (pc), the plaintext it read into its local, and how
\* it ended.
RaceCall(self, public, pc, local, result) ==
    [op |-> "receive_request", self |-> self,
     args |-> [NoArgs EXCEPT !.public = public, !.at = 1, !.cached = TRUE],
     res |-> [pc |-> pc, local |-> local, result |-> result]]

RaceInit ==
    /\ ids = [n \in IdNames |-> NewFirstPerson(n)]
    /\ used = {}
    /\ \E a \in IdNames, b \in IdNames, kind \in {"handshake", "ack", "nak"},
          target \in Targets, st \in Statuses, s \in RequestSecrets :
          LET made == MakeInner(ids[a], kind, target,
                                IF kind = "handshake" THEN s ELSE NoSecret,
                                IF kind = "handshake" THEN -1 ELSE st,
                                ids[b].third_party)
              unpacked == UnpackRequest(ids[b], made.packed)
          IN /\ CipherOf(a) = CipherOf(b)
             /\ kind = "handshake" => st = 0
             /\ kind # "handshake" => s = Secret(1, 1, 2)
             /\ made.result = "ok"
             /\ unpacked.result = "ok"
             /\ wire = made.packed
             /\ heap = <<Obj("GARQ", made.packed, TRUE, unpacked.rec)>>
             /\ last = RaceCall(b, ids[a].third_party,
                                [t \in Threads |-> "call"],
                                [t \in Threads |-> NoRec],
                                [t \in Threads |-> ""])

RaceStep(t, pc, local, result) ==
    last' = [last EXCEPT !.res.pc[t] = pc, !.res.local[t] = local,
                         !.res.result[t] = result]

\* _typecheck_thirdparty, isinstance, and plaintext = request._plaintext
\* inside try / except AttributeError -> TypeError
rr_get_plaintext(t) ==
    /\ last.res.pc[t] = "call"
    /\ IF ~TypecheckThirdparty(ids[last.self], last.args.public)
          \/ heap[1].cls # "GARQ" \/ ~heap[1].has_plaintext
       THEN RaceStep(t, "done", NoRec, "TypeError")
       ELSE RaceStep(t, "verify_mac", heap[1].plaintext, "")
    /\ UNCHANGED <<ids, wire, heap, used>>

\* self._verify_mac(key=self._derive_shared(public), ...)
rr_verify_mac(t) ==
    LET v == VerifyMac(ids[last.self].cipher,
                       DeriveShared(ids[last.self], last.args.public),
                       heap[1].signature, Address(heap[1].body))
    IN /\ last.res.pc[t] = "verify_mac"
       /\ IF v # "" THEN RaceStep(t, "done", NoRec, v)
          ELSE RaceStep(t, "del_plaintext", last.res.local[t], "")
       /\ UNCHANGED <<ids, wire, heap, used>>

\* del request._plaintext, outside any try, and return plaintext
rr_del_plaintext(t) ==
    /\ last.res.pc[t] = "del_plaintext"
    /\ IF heap[1].has_plaintext
       THEN /\ heap' = [heap EXCEPT ![1] = Consume(@)]
            /\ RaceStep(t, "done", last.res.local[t], "ok")
       ELSE /\ heap' = heap
            /\ RaceStep(t, "done", NoRec, "AttributeError")
    /\ UNCHANGED <<ids, wire, used>>

RaceNext ==
    \/ \E t \in Threads : rr_get_plaintext(t)
    \/ \E t \in Threads : rr_verify_mac(t)
    \/ \E t \in Threads : rr_del_plaintext(t)

RaceSpec == RaceInit /\ [][RaceNext]_vars

(***************************************************************************)
(* Loaded identities: the suite-1 identity A was not generated but loaded  *)
(* from its keys and an author_guid, which the constructor stores as       *)
(* given.  The others know A by the ThirdPersonIdentity that from_keys     *)
(* builds from A's public keys.                                            *)
(***************************************************************************)
LoadedGuids == LoadGuids \cup {NewFirstPerson("A").author_guid}
Parties ==
    {FromKeysAnyBundle(CipherOf(n), Bundle(Roles, PublicKeys(n)),
                       DispatchAddress(0)).third : n \in IdNames}
LoadActors == {n \in IdNames : CipherOf(n) = 1}

LoadInit ==
    /\ \E g \in LoadedGuids :
          ids = [n \in IdNames |->
                   IF n = "A"
                   THEN FirstPersonInit("A", TRUE,
                                        Bundle(Roles, GenerateKeys("A")),
                                        TRUE, g).first
                   ELSE NewFirstPerson(n)]
    /\ wire = NoContainer
    /\ heap = <<>>
    /\ last = Call("init", "", NoArgs, Fail("ok", <<>>, NoData))
    /\ used = {}

LoadNext ==
    \/ \E n \in LoadActors, s \in Secrets, p \in Plaintexts : make_object(n, s, p)
    \/ \E n \in LoadActors, s \in RequestSecrets, g \in Targets, r \in Parties :
          make_request(n, s, g, r)
    \/ \E n \in LoadActors : unpack_request(n)
    \/ \E n \in LoadActors, r \in Parties, at \in 1 .. Len(heap) :
          receive_request(n, r, at)
    \/ \E n \in LoadActors : unpack_object(n)
    \/ \E n \in LoadActors, r \in Parties, s \in RequestSecrets,
          at \in 1 .. Len(heap) : receive_object(n, r, s, at)
    \/ release

LoadSpec == LoadInit /\ [][LoadNext]_vars

(***************************************************************************)
(* Properties.                                                             *)
(***************************************************************************)
\* The place of the first occurrence of prim in log, 0 if there is none.
PlaceOf(log, prim) ==
    IF Has(log, prim)
    THEN CHOOSE i \in 1 .. Len(log) :
             log[i] = prim /\ \A j \in 1 .. i - 1 : log[j] # prim
    ELSE 0

\* The last call was op and was handed the object at a place of the heap.
OnObject(op) == last.op = op /\ last.args.at \in 1 .. Len(heap)

\* C1: receive_request returns the plaintext of an envelope at most once, and
\* every receive_request call on an object that carries no cached plaintext
\* (consumed, never passed through unpack_request, or no GARQ) raises
\* TypeError, returns no plaintext, and neither derives a shared secret nor
\* verifies a MAC.
C1_SingleConsumption ==
    /\ \A i \in 1 .. Len(heap) : heap[i].returned <= 1
    /\ (OnObject("receive_request") /\ ~last.args.cached) =>
          /\ last.res.result = "TypeError"
          /\ last.res.rec = NoRec
          /\ ~Has(last.res.log, "derive_shared")
          /\ ~Has(last.res.log, "verify_mac")
          /\ ~Has(last.res.log, "del_plaintext")

\* A second receive_request on an envelope that an earlier one consumed.
C1_Witness ==
    /\ OnObject("receive_request")
    /\ ~last.args.cached
    /\ heap[last.args.at].returned = 1
    /\ TypecheckThirdparty(ids[last.self], last.args.public)

\* C2: the cached plaintext of an envelope is discarded only by a
\* receive_request call that returns it, and once discarded (or never set) no
\* step sets a cached plaintext on that same envelope again.
C2_NoReturnToUnverified ==
    [][\A i \in 1 .. Len(heap) :
          i <= Len(heap') =>
             /\ ~heap[i].has_plaintext => ~heap'[i].has_plaintext
             /\ (heap[i].has_plaintext /\ ~heap'[i].has_plaintext) =>
                   /\ last'.op = "receive_request"
                   /\ last'.res.result = "ok"
                   /\ last'.args.at = i
                   /\ last'.res.rec = heap[i].plaintext
             /\ heap'[i].body = heap[i].body]_vars

\* unpack_request has succeeded again while a consumed envelope is held.
C2_Witness ==
    /\ last.op = "unpack_request"
    /\ last.res.result = "ok"
    /\ \E i \in 1 .. Len(heap) : heap[i].returned = 1 /\ i # last.args.at

\* The MAC attached to a GARQ object is the one the receiving identity
\* computes over the address of the object with the secret it shares with
\* sender.  (Ciphersuite 0 accepts every MAC.)
MacVerifies(self, sender, obj) ==
    \/ self.cipher = 0
    \/ /\ obj.signature.scheme = "hmac"
       /\ obj.signature.key = DeriveShared(self, sender)
       /\ obj.signature.data = Data(TRUE, obj.body)

\* C3: receive_request returns the plaintext of the envelope only if the MAC
\* of the envelope verifies over its address under the secret shared by the
\* receiver and the sender; when the verification fails the call raises
\* SecurityError, returns nothing and leaves the cache in place.
C3_MacBeforePlaintext ==
    OnObject("receive_request") =>
        LET self == ids[last.self]
            obj == heap[last.args.at]
            valid == MacVerifies(self, last.args.public, obj)
        IN /\ (last.res.result = "ok" \/ last.res.rec # NoRec) =>
                 /\ valid
                 /\ PlaceOf(last.res.log, "verify_mac") > 0
                 /\ PlaceOf(last.res.log, "verify_mac")
                       < PlaceOf(last.res.log, "del_plaintext")
           /\ (/\ TypecheckThirdparty(self, last.args.public)
               /\ last.args.cached
               /\ ~valid) =>
                 /\ last.res.result = "SecurityError"
                 /\ last.res.rec = NoRec
                 /\ obj.has_plaintext

\* receive_request has refused an envelope whose MAC does not verify.
C3_Witness ==
    /\ OnObject("receive_request")
    /\ last.res.result = "SecurityError"
    /\ heap[last.args.at].signature.scheme = "hmac"

\* The signature attached to a GEOC object is the one sender's signature key
\* makes over the address of the object.  (Ciphersuite 0 accepts every
\* signature.)
SignatureVerifies(self, sender, obj) ==
    \/ self.cipher = 0
    \/ /\ obj.signature.scheme = "pss"
       /\ obj.signature.signer = sender.signature_key.id
       /\ obj.signature.data = Data(TRUE, obj.body)

\* C4: receive_object verifies the signature over the address of the object
\* with the sender's public signature key before it decrypts; it decrypts and
\* returns a plaintext only if that verification succeeded, and a failed
\* verification ends the call with SecurityError.
C4_FailClosed ==
    OnObject("receive_object") =>
        LET self == ids[last.self]
            obj == heap[last.args.at]
            valid == SignatureVerifies(self, last.args.public, obj)
            log == last.res.log
        IN /\ (Has(log, "decrypt") \/ last.res.pt # <<>> \/ last.res.result = "ok") =>
                 /\ valid
                 /\ PlaceOf(log, "verify") > 0
                 /\ PlaceOf(log, "verify") < PlaceOf(log, "decrypt")
           /\ (/\ obj.cls = "GEOC"
               /\ TypecheckThirdparty(self, last.args.public)
               /\ ~valid) =>
                 /\ last.res.result = "SecurityError"
                 /\ last.res.pt = <<>>
                 /\ ~Has(log, "decrypt")

\* receive_object has refused an object whose signature does not verify.
C4_Witness ==
    /\ OnObject("receive_object")
    /\ last.res.result = "SecurityError"
    /\ heap[last.args.at].cls = "GEOC"

\* The parse attempts of a call, in the order it made them.
IsParseStep(x) == x \in {"parse_handshake", "parse_ack", "parse_nak"}
ParseLog(log) == SelectSeq(log, IsParseStep)
CascadeOrder == <<"parse_handshake", "parse_ack", "parse_nak">>

\* The last call was unpack_request, of a GARQ whose payload it decrypted.
Cascaded ==
    /\ last.op = "unpack_request"
    /\ wire.body.kind = "GARQ"
    /\ DecryptAsym(ids[last.self], wire.body.asym).err = ""

DecryptedParse == DecryptAsym(ids[last.self], wire.body.asym).val.parse

\* C5: unpack_request tries the decrypted payload as handshake, then ack, then
\* nak; a parser is tried only after every earlier one raised ParseError; the
\* first that parses gives the record returned and cached; a payload none
\* parses ends the call with SecurityError, no envelope and no cached
\* plaintext.
C5_CascadeOrdering ==
    Cascaded =>
        LET tried == ParseLog(last.res.log)
            k == Len(tried)
            parse == DecryptedParse
        IN /\ k >= 1
           /\ tried = SubSeq(CascadeOrder, 1, k)
           /\ \A j \in 1 .. k - 1 : parse[j] = "ParseError"
           /\ parse[k] = "ParseError" => k = 3
           /\ last.res.result = "ok" =>
                 /\ parse[k] = "ok"
                 /\ last.res.rec.kind = ParseKinds[k]
                 /\ last.args.at \in 1 .. Len(heap)
                 /\ heap[last.args.at].has_plaintext
                 /\ heap[last.args.at].plaintext = last.res.rec
           /\ parse[k] = "ok" => last.res.result = "ok"
           /\ (\A j \in 1 .. 3 : parse[j] = "ParseError") =>
                 /\ last.res.result = "SecurityError"
                 /\ last.res.rec = NoRec
                 /\ last.args.at = 0

\* unpack_request has returned an ack for a payload the nak parser accepts as
\* well.
C5_Witness ==
    /\ Cascaded
    /\ last.res.result = "ok"
    /\ last.res.rec.kind = "ack"
    /\ DecryptedParse = <<"ParseError", "ok", "ok">>

\* C6: unpack_request moves on to the next parser only on ParseError: any
\* other error of a parser, an error of GARQ.unpack or of the decryption,
\* ends the call with that error, with no further parser tried and not as
\* SecurityError.
C6_OnlyParseErrorCaught ==
    last.op = "unpack_request" =>
        LET tried == ParseLog(last.res.log)
            dec == DecryptAsym(ids[last.self], wire.body.asym)
        IN /\ wire.body.kind # "GARQ" =>
                 /\ last.res.result = "ParseError"
                 /\ last.res.log = <<"unpack_garq">>
           /\ (wire.body.kind = "GARQ" /\ dec.err # "") =>
                 /\ last.res.result = dec.err
                 /\ tried = <<>>
           /\ Cascaded =>
                 \A k \in 1 .. 3 :
                    (/\ DecryptedParse[k] \notin {"ok", "ParseError"}
                     /\ \A j \in 1 .. k - 1 : DecryptedParse[j] = "ParseError") =>
                       /\ last.res.result = DecryptedParse[k]
                       /\ Len(tried) = k
                       /\ last.res.rec = NoRec
                       /\ last.args.at = 0

\* The ack parser has raised an error that is no ParseError, on a payload the
\* nak parser accepts.
C6_Witness ==
    /\ Cascaded
    /\ DecryptedParse = <<"ParseError", "ValueError", "ok">>
    /\ last.res.result = "ValueError"

CryptoPrims ==
    {"encrypt", "decrypt", "sign", "verify", "mac", "verify_mac",
     "derive_shared", "encrypt_asym", "decrypt_asym"}

TakesSecret == {"make_object", "make_request", "receive_object"}
TakesParty ==
    {"make_request", "make_ack", "make_nak", "receive_request", "receive_object"}
MakeOps ==
    {"make_object", "make_bind_static", "make_bind_dynamic", "make_debind",
     "make_request", "make_ack", "make_nak"}

\* C7: in every protocol operation a secret that is no Secret of the
\* identity's own ciphersuite, or a counterparty that is no compatible
\* ThirdPersonIdentity, is rejected with TypeError before any cryptographic
\* primitive is invoked.
C7_TypeMismatchFailFast ==
    (last.op \in TakesSecret \cup TakesParty) =>
        LET self == ids[last.self]
            bad_secret == /\ last.op \in TakesSecret
                          /\ ~TypecheckSecret(self, last.args.secret)
            bad_party == /\ last.op \in TakesParty
                         /\ ~TypecheckThirdparty(self, last.args.public)
        IN (bad_secret \/ bad_party) =>
              /\ last.res.result = "TypeError"
              /\ \A i \in 1 .. Len(last.res.log) : last.res.log[i] \notin CryptoPrims

\* C8: make_object checks the secret against the identity's ciphersuite
\* first: a secret that fails is rejected with TypeError and nothing has been
\* encrypted, packed or signed; otherwise it encrypts, packs the GEOC, signs
\* the address of the packed GEOC and attaches the signature, in that order.
C8_MakeObjectOrder ==
    last.op = "make_object" =>
        LET self == ids[last.self]
        IN IF ~(last.args.secret.is_secret /\ last.args.secret.cipher = self.cipher)
           THEN /\ last.res.result = "TypeError"
                /\ last.res.log = <<"typecheck_secret">>
                /\ last.res.data = NoData
                /\ wire = NoContainer
           ELSE /\ last.res.result = "ok"
                /\ last.res.log =
                      <<"typecheck_secret", "encrypt", "pack", "sign", "attach">>
                /\ wire.body.kind = "GEOC"
                /\ wire.body.who = self.author_guid
                /\ wire.body.ct =
                      Encrypt(self.cipher, last.args.secret, last.args.pt).val
                /\ last.res.data = Data(TRUE, wire.body)
                /\ wire.signature = Sign(self, Data(TRUE, wire.body)).val
                /\ wire.signature # NoSig

\* make_object has rejected a Secret of another ciphersuite.
C8_Witness ==
    /\ last.op = "make_object"
    /\ last.args.secret.is_secret
    /\ last.args.secret.cipher # ids[last.self].cipher
    /\ last.res.result = "TypeError"

\* C9: whatever is handed to sign, verify, mac or verify_mac is the address
\* of the container the call makes or checks, obtained after packing, never
\* the bytes of the container or of its payload; a container is packed, then
\* its address signed or MACed, then the signature attached.
C9_AddressIsAuthenticated ==
    /\ last.res.data # NoData => last.res.data.hashed
    /\ (last.op \in MakeOps /\ last.res.result = "ok") =>
          LET log == last.res.log
              auth == IF Has(log, "sign") THEN "sign" ELSE "mac"
          IN /\ last.res.data = Data(TRUE, wire.body)
             /\ PlaceOf(log, "pack") > 0
             /\ PlaceOf(log, "pack") < PlaceOf(log, auth)
             /\ PlaceOf(log, auth) < PlaceOf(log, "attach")
             /\ wire.signature.scheme \in {"pss", "hmac"} =>
                   wire.signature.data = Data(TRUE, wire.body)
    /\ ((OnObject("receive_request") \/ OnObject("receive_object"))
           /\ (Has(last.res.log, "verify") \/ Has(last.res.log, "verify_mac"))) =>
          last.res.data = Data(TRUE, heap[last.args.at].body)

\* make_request has attached an HMAC to the GARQ it packed.
C9_Witness ==
    /\ last.op = "make_request"
    /\ last.res.result = "ok"
    /\ wire.signature.scheme = "hmac"

\* What unpack_request and receive_request of b make of the container in
\* flight when it is the request a made for b from an inner record of the
\* given kind.
EndToEnd(a, b, made, rec) ==
    (made.result = "ok" /\ wire = made.packed) =>
        /\ (last.op = "unpack_request" /\ last.self = b) =>
              /\ last.res.result = "ok"
              /\ last.res.author = ids[a].author_guid
              /\ last.args.at \in 1 .. Len(heap)
              /\ heap[last.args.at].plaintext = rec
        /\ (/\ OnObject("receive_request")
            /\ last.self = b
            /\ last.args.public = ids[a].third_party
            /\ last.args.cached) =>
              /\ last.res.result = "ok"
              /\ last.res.rec = rec

EndToEndAmong(names) ==
    \A a \in names, b \in names :
        ids[a].cipher = ids[b].cipher =>
            \A t \in Targets :
                /\ \A s \in RequestSecrets :
                      EndToEnd(a, b, MakeRequest(ids[a], s, t, ids[b].third_party),
                               Rec("handshake", ids[a].author_guid, t, s, -1))
                /\ \A st \in Statuses :
                      /\ EndToEnd(a, b, MakeAck(ids[a], t, ids[b].third_party, st),
                                  Rec("ack", ids[a].author_guid, t, NoSecret, st))
                      /\ EndToEnd(a, b, MakeNak(ids[a], t, ids[b].third_party, st),
                                  Rec("nak", ids[a].author_guid, t, NoSecret, st))

\* C10 as claimed: for identities A and B of the same ciphersuite, whatever
\* the suite, B's unpack_request of A's request returns A's author_guid and
\* B's receive_request returns the record with the secret, target and status
\* A supplied.
C10_HandshakeEndToEndAnySuite == EndToEndAmong(IdNames)

\* C10, amended: for identities A and B of ciphersuite 1, any secret and any
\* target, B's unpack_request of what A.make_request / make_ack / make_nak
\* made for B returns A's author_guid, and B's receive_request with A's
\* third-person identity returns the handshake / ack / nak record carrying
\* the secret, target and status A supplied.
C10_HandshakeEndToEnd == EndToEndAmong({n \in IdNames : CipherOf(n) = 1})

\* B has received the handshake another identity made for it.
C10_Witness ==
    /\ OnObject("receive_request")
    /\ last.res.result = "ok"
    /\ last.res.rec.kind = "handshake"
    /\ last.res.rec.author # ids[last.self].author_guid
    /\ last.res.rec.author = last.args.public.author_guid

Suite1 == {n \in IdNames : CipherOf(n) = 1}

\* The object at the place the last call worked on is the unpacked form of
\* the packed container c.
Holds(c) ==
    /\ last.args.at \in 1 .. Len(heap)
    /\ heap[last.args.at].cls = "GEOC"
    /\ heap[last.args.at].body = c.body
    /\ heap[last.args.at].signature = c.signature

\* C11: for ciphersuite-1 identities A and B, a secret s and a plaintext p,
\* B's unpack_object of what A.make_object(s, p) packed names A as author, and
\* B's receive_object with A's third-person identity and s returns the guid
\* of that container and p; when the packed container was altered before it
\* was unpacked, receive_object raises SecurityError and returns no plaintext.
C11_ObjectEndToEnd ==
    \A a \in Suite1, s \in Secrets, p \in Plaintexts :
        LET made == MakeObject(ids[a], s, p)
        IN made.result = "ok" =>
            /\ (last.op = "unpack_object" /\ wire = made.packed
                   /\ last.self \in Suite1) =>
                  /\ last.res.result = "ok"
                  /\ last.res.author = ids[a].author_guid
                  /\ Holds(made.packed)
            /\ (OnObject("receive_object") /\ last.self \in Suite1
                   /\ last.args.public = ids[a].third_party
                   /\ last.args.secret = s) =>
                  /\ Holds(made.packed) =>
                        /\ last.res.result = "ok"
                        /\ last.res.pt = p
                        /\ ContainerGuid(heap[last.args.at].body)
                              = ContainerGuid(wire.body)
                        /\ last.res.data = Address(made.packed.body)
                  /\ \A w \in CorruptWhere :
                        Holds(Corrupted(made.packed, w)) =>
                            /\ last.res.result = "SecurityError"
                            /\ last.res.pt = <<>>

\* B has received the plaintext of an object A made.
C11_Witness ==
    /\ OnObject("receive_object")
    /\ last.self \in Suite1
    /\ last.args.public # ids[last.self].third_party
    /\ last.res.result = "ok"
    /\ last.res.pt \in Plaintexts

\* B has refused an object whose payload was altered in flight.
C11_CorruptedSeen ==
    /\ OnObject("receive_object")
    /\ last.self \in Suite1
    /\ last.res.result = "SecurityError"
    /\ \E a \in Suite1, s \in Secrets, p \in Plaintexts :
          /\ MakeObject(ids[a], s, p).result = "ok"
          /\ Holds(Corrupted(MakeObject(ids[a], s, p).packed, "payload"))
          /\ last.args.public = ids[a].third_party
          /\ last.args.secret = s

\* C12: two identities of the same ciphersuite derive the same shared secret
\* from each other's third-person identity, with the same salt whichever side
\* computes it; so the MAC a sender attached with its derivation verifies in
\* the recipient's receive_request.
C12_SharedSecretSymmetry ==
    \A a \in IdNames, b \in IdNames :
        ids[a].cipher = ids[b].cipher =>
            LET mine == DeriveShared(ids[a], ids[b].third_party)
                theirs == DeriveShared(ids[b], ids[a].third_party)
            IN /\ mine = theirs
               /\ (ids[a].cipher = 1) =>
                     mine.salt = XorBytes(ids[b].author_guid.address,
                                          ids[a].author_guid.address)
               /\ (/\ OnObject("receive_request")
                   /\ last.args.cached
                   /\ last.self = b
                   /\ last.args.public = ids[a].third_party
                   /\ heap[last.args.at].signature =
                         Mac(ids[a].cipher, mine, Address(heap[last.args.at].body))) =>
                     last.res.result = "ok"

\* A recipient has verified the HMAC another identity keyed with its own
\* derivation.
C12_Witness ==
    /\ OnObject("receive_request")
    /\ last.res.result = "ok"
    /\ last.args.public # ids[last.self].third_party
    /\ heap[last.args.at].signature.scheme = "hmac"
    /\ \E a \in IdNames :
          /\ ids[a].third_party = last.args.public
          /\ heap[last.args.at].signature.key =
                DeriveShared(ids[a], ids[last.self].third_party)

\* C13: every first-person identity, generated or loaded from keys and an
\* author_guid, has a third_party of the same author_guid and ciphersuite,
\* from construction on.
C13_IdentityPairing ==
    \A n \in IdNames :
        ids[n] # NoIdentity =>
            /\ ids[n].third_party # NoThird
            /\ ids[n].third_party.author_guid = ids[n].author_guid
            /\ ids[n].third_party.cls = ids[n].cipher

\* C14: over any sequence of new_secret and make_object calls, one key and
\* nonce encrypt at most one plaintext.
C14_OneTimeSecretUse ==
    \A u \in used, v \in used :
        (u.cipher = v.cipher /\ u.key = v.key /\ u.seed = v.seed) => u.pt = v.pt

\* What the suite-0 primitives show through the operations of a suite-0
\* identity.  any_party: _verify succeeds whatever counterparty it is given.
NullSuite(any_party) ==
    (last.self \in IdNames /\ last.op # "new_secret") =>
        LET z == ids[last.self]
            compatible == TypecheckThirdparty(z, last.args.public)
        IN z.cipher = 0 =>
            /\ (last.op = "make_object" /\ last.res.result = "ok") =>
                  /\ wire.body.ct = PlaceholderEncrypted
                  /\ wire.signature = DummySignature
            /\ last.op \in {"make_bind_static", "make_bind_dynamic", "make_debind"} =>
                  /\ last.res.result = "ok"
                  /\ wire.signature = DummySignature
            /\ (last.op \in {"make_request", "make_ack", "make_nak"} /\ compatible) =>
                  /\ last.res.result = "ok"
                  /\ wire.body.asym = DummyAsym
                  /\ wire.signature = DummyMac
            /\ (last.op = "unpack_request" /\ wire.body.kind = "GARQ") =>
                  last.res.result = Cascade(DummyInner, <<>>).result
            /\ (OnObject("receive_request") /\ last.args.cached /\ compatible) =>
                  last.res.result = "ok"
            /\ (OnObject("receive_object") /\ heap[last.args.at].cls = "GEOC"
                   /\ (any_party \/ compatible)) =>
                  /\ last.res.result = "ok"
                  /\ last.res.pt = PlaceholderDecrypted

RoundTrip(names) ==
    (last.op = "decrypt" /\ last.self \in names) =>
        /\ last.res.err = ""
        /\ last.res.pt = last.args.pt

\* C16 as claimed: for all Secrets s and plaintexts p, of either ciphersuite,
\* decrypt(s, encrypt(s, p)) = p.
C16_RoundTripAnySuite == RoundTrip(IdNames)

\* C16, amended: for ciphersuite 1, all its Secrets s and all plaintexts p,
\* decrypt(s, encrypt(s, p)) = p.
C16_RoundTrip == RoundTrip(Suite1)

\* A suite-1 identity has decrypted a ciphertext that differs from its
\* plaintext.
C16_Witness ==
    /\ last.op = "decrypt"
    /\ last.self \in Suite1
    /\ Len(last.args.pt) = MaxLen
    /\ Encrypt(1, last.args.secret, last.args.pt).val # last.args.pt
    /\ last.res.pt = last.args.pt

\* A suite-1 identity checks what a suite-1 identity signed or MACed.
Suite1Check(op) ==
    /\ last.op = op
    /\ last.self \in Suite1
    /\ last.args.signer \in Suite1

\* C17 as claimed: in ciphersuite 1, verify(sign(d), d) and
\* verify_mac(k, mac(k, d), d) succeed; with the data or the signature / tag
\* altered they raise SecurityError; and they have no outcome other than
\* success and SecurityError.
C17_VerifyOutcomesOnly ==
    /\ Suite1Check("verify") =>
          /\ (last.args.tamper = "none"
                 /\ last.args.public = ids[last.args.signer].third_party) =>
                last.res.err = ""
          /\ last.args.tamper # "none" => last.res.err = "SecurityError"
          /\ last.res.err \in {"", "SecurityError"}
    /\ Suite1Check("verify_mac") =>
          /\ last.args.tamper = "none" => last.res.err = ""
          /\ last.args.tamper # "none" => last.res.err = "SecurityError"
          /\ last.res.err \in {"", "SecurityError"}

\* C17, amended: in ciphersuite 1, verify(sign(d), d) with the signer's
\* third-person identity and verify_mac(k, mac(k, d), d) succeed; with another
\* digest, another signer's key, or an altered signature, tag or key they
\* raise SecurityError, never returning a false value; verify raises TypeError
\* for a counterparty of another ciphersuite and ValueError for data that is
\* not digest-sized, before it verifies anything.
C17_VerifyOutcomes ==
    /\ Suite1Check("verify") =>
          last.res.err =
             IF ~TypecheckThirdparty(ids[last.self], last.args.public)
             THEN "TypeError"
             ELSE IF last.args.tamper = "size" THEN "ValueError"
             ELSE IF /\ last.args.tamper = "none"
                     /\ last.args.public = ids[last.args.signer].third_party
                  THEN ""
                  ELSE "SecurityError"
    /\ Suite1Check("verify_mac") =>
          last.res.err = IF last.args.tamper = "none" THEN "" ELSE "SecurityError"

\* A suite-1 identity has refused a tag over other data than it was given.
C17_Witness ==
    /\ Suite1Check("verify_mac")
    /\ last.args.tamper = "data"
    /\ last.res.sig.scheme = "hmac"
    /\ last.res.err = "SecurityError"


\* C18: a constructor given a key bundle that lacks one of the roles
\* signature / encryption / exchange raises the configuration error
\* (RuntimeError) and builds no identity, first- or third-person; a
\* first-person constructor given exactly one of keys and author_guid is
\* rejected before any key is generated or loaded.
C18_MalformedConstruction ==
    /\ (/\ last.op \in {"first_person", "from_keys"}
        /\ last.args.has_keys
        /\ (last.op = "first_person" => last.args.has_guid)
        /\ ~(Roles \subseteq last.args.roles))
          => /\ last.res.result = "RuntimeError"
             /\ last.res.first = NoIdentity
             /\ last.res.third = NoThird
    /\ (/\ last.op = "first_person"
        /\ last.args.has_keys # last.args.has_guid)
          => /\ last.res.result = "TypeError"
             /\ last.res.first = NoIdentity
             /\ ~last.res.generated


AsymOps == {"make_request", "make_ack", "make_nak"}
AsymKind(op) ==
    IF op = "make_request" THEN "handshake"
    ELSE IF op = "make_ack" THEN "ack" ELSE "nak"

\* C19: make_request, make_ack and make_nak typecheck the recipient first
\* and raise TypeError with nothing else done when it is of another suite;
\* otherwise they pack the inner record, encrypt it asymmetrically to the
\* recipient, wrap it in a GARQ addressed to the recipient's author_guid and
\* attach the MAC of the GARQ's address keyed with the secret shared with
\* that recipient; the sender's signature key takes no part.  In suite 1 the
\* payload names the recipient's encryption key and the recipient can
\* decrypt it and verify the MAC.
C19_AsymPipeline ==
    last.op \in AsymOps =>
        LET self == ids[last.self]
            recipient == last.args.public
            inner == PackInner(AsymKind(last.op), self.author_guid,
                               last.args.target, last.args.secret,
                               last.args.status)
        IN IF ~TypecheckThirdparty(self, recipient)
           THEN /\ last.res.result = "TypeError"
                /\ last.res.log = <<"typecheck_thirdparty">>
                /\ wire = NoContainer
           ELSE /\ last.res.result = "ok"
                /\ last.res.log = <<"typecheck_thirdparty", "pack_inner",
                                    "encrypt_asym", "pack", "derive_shared",
                                    "mac", "attach">>
                /\ wire.body.kind = "GARQ"
                /\ wire.body.who = recipient.author_guid
                /\ wire.body.asym = EncryptAsym(self, recipient, inner)
                /\ wire.signature =
                      Mac(self.cipher, DeriveShared(self, recipient),
                          Address(wire.body))
                /\ wire.signature.scheme \notin {"pss", "dummy_signature"}
                /\ self.cipher = 1 =>
                      /\ wire.body.asym.to = recipient.encryption_key.id
                      /\ wire.body.asym.body = inner
                      /\ wire.signature.scheme = "hmac"
                      /\ wire.signature.signer # self.signature_key.id
                      /\ \A b \in IdNames :
                            ids[b].third_party = recipient =>
                               /\ DecryptAsym(ids[b], wire.body.asym) = Ret("", inner)
                               /\ VerifyMac(1, DeriveShared(ids[b], self.third_party),
                                            wire.signature, Address(wire.body)) = ""

\* A suite-1 identity has made an ack for another suite-1 identity, and has
\* been refused one for the suite-0 identity.
C19_Witness ==
    /\ last.op = "make_ack"
    /\ last.res.result = "ok"
    /\ ids[last.self].cipher = 1
    /\ last.args.public # ids[last.self].third_party
    /\ wire.body.asym.to = last.args.public.encryption_key.id

C19_RefusedSeen ==
    /\ last.op \in AsymOps
    /\ last.res.result = "TypeError"
    /\ wire = NoContainer


ProtocolOps ==
    MakeOps \cup {"unpack_request", "receive_request", "unpack_object",
                  "receive_object"}

\* An unpacked object without its cached plaintext.
Uncached(obj) ==
    [obj EXCEPT !.has_plaintext = FALSE, !.plaintext = NoRec, !.returned = 0]

\* C20: no protocol operation, successful or failing, changes an identity
\* (author_guid, ciphersuite, address algorithm, keys, third_party); of the
\* objects held by callers a call changes at most the cached plaintext of
\* the one it handles, and the unpack and receive calls leave the container
\* they were given as it was.
C20_IdentityFrame ==
    [][last'.op \in ProtocolOps =>
          /\ ids' = ids
          /\ Len(heap') >= Len(heap)
          /\ \A i \in 1 .. Len(heap) :
                /\ Uncached(heap'[i]) = Uncached(heap[i])
                /\ i # last'.args.at => heap'[i] = heap[i]
          /\ last'.op \notin MakeOps => wire' = wire
          /\ (last'.op \in MakeOps \/ last'.res.result # "ok") => heap' = heap
      ]_vars

\* receive_request has returned the request of an object and dropped its
\* cached plaintext; the identities are as they were generated.
C20_Witness ==
    /\ OnObject("receive_request")
    /\ last.res.result = "ok"
    /\ last.args.cached
    /\ ~heap[last.args.at].has_plaintext
    /\ ids = [n \in IdNames |-> NewFirstPerson(n)]


\* C21: unpack_object and unpack_request authenticate nothing.  unpack_object
\* returns the claimed author and the unpacked object for every well-formed
\* GEOC, whatever its signature; unpack_request, when it returns, has cached
\* the parsed plaintext on the object and returns the author the plaintext
\* claims, no MAC having been verified; _verify runs in receive_object only
\* and _verify_mac in receive_request only.
C21_UnpackNoAuthentication ==
    /\ last.op = "unpack_object" =>
          /\ last.res.result = IF wire.body.kind = "GEOC" THEN "ok" ELSE "ParseError"
          /\ last.res.result = "ok" =>
                /\ last.res.author = wire.body.who
                /\ heap[last.args.at].body = wire.body
                /\ heap[last.args.at].signature = wire.signature
    /\ (last.op = "unpack_request" /\ last.res.result = "ok") =>
          /\ heap[last.args.at].has_plaintext
          /\ heap[last.args.at].plaintext = last.res.rec
          /\ heap[last.args.at].returned = 0
          /\ heap[last.args.at].signature = wire.signature
          /\ last.res.author = last.res.rec.author
    /\ last.op \in ProtocolOps =>
          /\ Has(last.res.log, "verify") => last.op = "receive_object"
          /\ Has(last.res.log, "verify_mac") => last.op = "receive_request"

\* unpack_request has returned a forged request, its plaintext cached, that
\* carries no MAC any key verifies.
C21_Witness ==
    /\ last.op = "unpack_request"
    /\ last.res.result = "ok"
    /\ ids[last.self].cipher = 1
    /\ heap[last.args.at].has_plaintext
    /\ \A p \in Publics :
          VerifyMac(1, DeriveShared(ids[last.self], p), wire.signature,
                    Address(wire.body)) # ""

\* unpack_object has returned a GEOC whose signature no identity made.
C21_UnsignedSeen ==
    /\ last.op = "unpack_object"
    /\ last.res.result = "ok"
    /\ ids[last.self].cipher = 1
    /\ \A p \in Publics :
          Verify(ids[last.self], p, wire.signature, Address(wire.body)) # ""


\* receive_request was handed an envelope that carried its cached plaintext
\* and refused it: its MAC did not verify under the secret shared with the
\* sender named, or the sender named is of another suite.
RefusedSender(l) ==
    /\ l.op = "receive_request"
    /\ l.args.cached
    /\ l.res.result \in {"SecurityError", "TypeError"}

\* C22: a receive_request that raises SecurityError or, for an incompatible
\* sender, TypeError leaves the envelope as it was, cached plaintext
\* included and never returned; a receive_request on it that names a sender
\* under whose shared secret the MAC verifies then succeeds and returns that
\* plaintext, and the one after it does not.
C22_FailedAuthenticationKeepsEnvelope ==
    [][RefusedSender(last') =>
          LET at == last'.args.at
              self == ids'[last'.self]
          IN /\ heap' = heap
             /\ heap'[at].has_plaintext
             /\ heap'[at].returned = 0
             /\ \A p \in Publics :
                   (/\ TypecheckThirdparty(self, p)
                    /\ VerifyMac(self.cipher, DeriveShared(self, p),
                                 heap'[at].signature,
                                 Address(heap'[at].body)) = "")
                   => LET res == ReceiveRequest(self, p, heap'[at])
                      IN /\ res.result = "ok"
                         /\ res.rec = heap[at].plaintext
                         /\ Has(res.log, "del_plaintext")
                         /\ ReceiveRequest(self, p, Consume(heap'[at])).result
                               = "TypeError"
      ]_vars

\* A suite-1 recipient named the wrong sender for a genuine request: the call
\* raised SecurityError, the envelope still carries its plaintext, and the MAC
\* verifies for the sender who made it.
C22_Witness ==
    /\ OnObject("receive_request")
    /\ RefusedSender(last)
    /\ last.res.result = "SecurityError"
    /\ heap[last.args.at].has_plaintext
    /\ \E p \in Publics :
          ReceiveRequest(ids[last.self], p, heap[last.args.at]).result = "ok"

\* The same after the sender named was of another suite.
C22_TypeErrorSeen ==
    /\ OnObject("receive_request")
    /\ RefusedSender(last)
    /\ last.res.result = "TypeError"
    /\ heap[last.args.at].has_plaintext
    /\ \E p \in Publics :
          ReceiveRequest(ids[last.self], p, heap[last.args.at]).result = "ok"


\* C23: when several receive_request calls on one envelope, by the same
\* identity and for the same valid sender, interleave, at most one returns
\* the plaintext and every call that has ended without it ended with
\* TypeError, the usage error.
C23_SingleConsumptionConcurrent ==
    /\ Cardinality({t \in Threads : last.res.result[t] = "ok"}) <= 1
    /\ \A t \in Threads :
          last.res.pc[t] = "done" => last.res.result[t] \in {"ok", "TypeError"}


\* C24: whenever receive_request returns a record, the author of the record
\* is the author_guid of the sender the call was given; whenever
\* receive_object returns, the author of the object is the author_guid of
\* the sender the call was given.
C24_AuthorBinding ==
    /\ (OnObject("receive_request") /\ last.res.result = "ok") =>
          last.res.rec.author = last.args.public.author_guid
    /\ (OnObject("receive_object") /\ last.res.result = "ok") =>
          heap[last.args.at].body.who = last.args.public.author_guid

====
